---- MODULE Spec2Model ----
(***************************************************************************)
(* A model of process_four_cameras (4_proj2.py): four images are loaded,   *)
(* a depth map is inferred for each, the 5th percentile of each camera's   *)
(* depth gives a z offset relative to camera 1, the offsets are written    *)
(* into copies of the rig's transforms, the points nearer than the         *)
(* threshold are transformed and coloured, and the clouds are shown.       *)
(*                                                                         *)
(* Lengths are fixed-point integers: Unit stands for 1.0, so 0.4 is 4000.  *)
(* Every depth of the model is a multiple of 100, which keeps numpy's      *)
(* linear percentile interpolation exact.  The float32 casts of lines 86   *)
(* and 89 round below the resolution of this grid.  Arrays are row-major   *)
(* flat sequences, indexed from 1: camera c of the model is i = c - 1 of   *)
(* the code.                                                               *)
(***************************************************************************)
EXTENDS Integers, Sequences, FiniteSets, TLC

VARIABLES pc, failedAt, depth_threshold, modelBuilds, evalMode, no_grad,
          openCalls, inferCalls, inferLog, images, depths,
          min_depths, depth_offsets, base_transforms, transforms, pcds,
          windowsCreated, windowsDestroyed, geometries

vars == <<pc, failedAt, depth_threshold, modelBuilds, evalMode, no_grad,
          openCalls, inferCalls, inferLog, images, depths,
          min_depths, depth_offsets, base_transforms, transforms, pcds,
          windowsCreated, windowsDestroyed, geometries>>

\* ------------------------------------------------------------- bounds

\* The largest number of pixels of a loaded image.
MaxPixels == 2

\* ---------------------------------------------------------- constants

NumCameras == 4

Unit == 100 * 100

DefaultThreshold == 2 * Unit

\* The thresholds a run is started with: the default, and one that equals
\* the depth of camera 3's plane.
Thresholds == {DefaultThreshold, 17800}

\* The depths of the four synthetic planes, and a nearer foreground depth.
PlaneDepths == <<10000, 14000, 17800, 21300>>

NearDepth == Unit \div 2

Cameras == 1..NumCameras

Range(s) == {s[k] : k \in DOMAIN s}

\* ------------------------------------------------- the rig's transforms

Eye4 == <<<<1, 0, 0, 0>>, <<0, 1, 0, 0>>, <<0, 0, 1, 0>>, <<0, 0, 0, 1>>>>

T_cam1_world == Eye4

T_cam2_world == <<<<1, 0, 0, 0>>, <<0, 1, 0, -4000>>, <<0, 0, 1, 0>>, <<0, 0, 0, 1>>>>

T_cam3_world == <<<<1, 0, 0, 0>>, <<0, 1, 0, -7800>>, <<0, 0, 1, 0>>, <<0, 0, 0, 1>>>>

T_cam4_world == <<<<1, 0, 0, 0>>, <<0, 1, 0, -11300>>, <<0, 0, 1, 0>>, <<0, 0, 0, 1>>>>

BaseTransformList == <<T_cam1_world, T_cam2_world, T_cam3_world, T_cam4_world>>

\* ------------------------------------------------------------ inputs

\* The decoded RGB image of n pixels: uint8 channels, a different colour
\* at every pixel.  No image of the model is larger than 1024 x 1024, so
\* thumbnail() leaves it as it is.
ImageOf(n) == [k \in 1..n |-> <<(255 - 60 * (k - 1)) % 256, (60 * (k - 1)) % 256, 128>>]

\* The images the four paths can hold: a single pixel, or MaxPixels pixels.
LoadableImages == {ImageOf(n) : n \in {1, MaxPixels}}

\* What infer_pil can return for camera c's image: a map with one depth
\* per pixel, each pixel on the camera's plane or on the foreground; or a
\* map that breaks the same-size contract (empty, or one pixel too many).
InferredDepths(img, c) ==
    [1..Len(img) -> {PlaneDepths[c], NearDepth}]
        \cup {<<>>}
        \cup {[k \in 1..(Len(img) + 1) |-> PlaneDepths[c]]}

\* ----------------------------------------------------- pure functions

\* One (x, y, z) per pixel, in pixel order; z is the pixel's depth and
\* x, y grow with it along the pixel's ray.
depth_to_points(depth) ==
    [k \in DOMAIN depth |->
        <<-(k - 1) * (depth[k] \div 10), -(k - 1) * (depth[k] \div 20), depth[k]>>]

\* The r-th smallest element of s (r from 1).
SortedAt(s, r) ==
    CHOOSE v \in Range(s) :
        /\ Cardinality({k \in DOMAIN s : s[k] < v}) < r
        /\ r <= Cardinality({k \in DOMAIN s : s[k] <= v})

\* np.percentile(s, q), linear interpolation, for a non-empty s.
Percentile(s, q) ==
    LET n   == Len(s)
        pos == q * (n - 1)
        lo  == pos \div 100
        f   == pos % 100
        hi  == IF lo + 1 < n THEN lo + 1 ELSE lo
        a   == SortedAt(s, lo + 1)
        b   == SortedAt(s, hi + 1)
    IN  a + ((b - a) * f) \div 100

ZColumn(points) == [k \in DOMAIN points |-> points[k][3]]

\* Line 57, for one depth map.
NearSurface(depth) == Percentile(ZColumn(depth_to_points(depth)), 5)

\* ComputeOffsets with camera 2 taken as the reference.
ComputeOffsetsFromSecond(mins) == [c \in DOMAIN mins |-> mins[c] - mins[2]]

\* Lines 61-62.
ComputeOffsets(mins) == [c \in DOMAIN mins |-> mins[c] - mins[1]]

\* WithZOffset writing the offset into entry [1, 3], the y translation.
WithYOffset(base, off) ==
    [r \in 1..4 |-> [col \in 1..4 |-> IF r = 2 /\ col = 4 THEN off ELSE base[r][col]]]

\* Lines 68-69: a copy of the base transform with entry [2, 3] set.
WithZOffset(base, off) ==
    [r \in 1..4 |-> [col \in 1..4 |-> IF r = 3 /\ col = 4 THEN off ELSE base[r][col]]]

\* Lines 65-70.
BuildTransforms(bases, offs) == [c \in DOMAIN bases |-> WithZOffset(bases[c], offs[c])]

\* DepthMask keeping the points at the threshold too.
DepthMaskInclusive(points, threshold) == [k \in DOMAIN points |-> points[k][3] <= threshold]

\* Line 78.
DepthMask(points, threshold) == [k \in DOMAIN points |-> points[k][3] < threshold]

\* s[mask] for a boolean mask as long as s.
RECURSIVE MaskSelect(_, _)
MaskSelect(s, mask) ==
    IF s = <<>> THEN <<>>
    ELSE (IF Head(mask) THEN <<Head(s)>> ELSE <<>>) \o MaskSelect(Tail(s), Tail(mask))

\* Lines 82-83: T @ [p; 1], first three components.
TransformPoint(T, p) ==
    LET h == <<p[1], p[2], p[3], 1>>
    IN  [r \in 1..3 |-> T[r][1] * h[1] + T[r][2] * h[2] + T[r][3] * h[3] + T[r][4] * h[4]]

\* Line 89: a colour channel as the fraction value / 255.
NormaliseColour(rgb) == [ch \in 1..3 |-> <<rgb[ch], 255>>]

\* BuildCloud taking the first colours of the image instead of the masked ones.
BuildCloudUnmaskedColours(depth, image, T, threshold) ==
    LET points == depth_to_points(depth)
        mask   == DepthMask(points, threshold)
        kept   == MaskSelect(points, mask)
        cols   == SubSeq(image, 1, Len(kept))
    IN  [points |-> [k \in DOMAIN kept |-> TransformPoint(T, kept[k])],
         colors |-> [k \in DOMAIN cols |-> NormaliseColour(cols[k])]]

\* Lines 74-91 for one camera whose mask fits its image.
BuildCloud(depth, image, T, threshold) ==
    LET points == depth_to_points(depth)
        mask   == DepthMask(points, threshold)
        kept   == MaskSelect(points, mask)
        cols   == MaskSelect(image, mask)
    IN  [points |-> [k \in DOMAIN kept |-> TransformPoint(T, kept[k])],
         colors |-> [k \in DOMAIN cols |-> NormaliseColour(cols[k])]]

\* FirstMisfit also stopping at a camera none of whose points survives.
FirstMisfitOrEmpty ==
    LET bad == {c \in Cameras :
                  \/ Len(depths[c]) # Len(images[c])
                  \/ \A k \in DOMAIN depths[c] : depths[c][k] >= depth_threshold}
    IN  IF bad = {} THEN 0 ELSE CHOOSE c \in bad : \A d \in bad : c <= d

\* The first camera whose mask does not fit its image (0: none).
FirstMisfit ==
    LET bad == {c \in Cameras : Len(depths[c]) # Len(images[c])}
    IN  IF bad = {} THEN 0 ELSE CHOOSE c \in bad : \A d \in bad : c <= d

\* CloudGeometries leaving out the clouds that have no point.
NonEmptyCloud(g) == g.cloud.points # <<>>
CloudGeometriesSkipEmpty(clouds) ==
    SelectSeq([k \in DOMAIN clouds |-> [kind |-> "cloud", cloud |-> clouds[k]]], NonEmptyCloud)

\* Lines 98-99: the clouds handed to the viewer.
CloudGeometries(clouds) == [k \in DOMAIN clouds |-> [kind |-> "cloud", cloud |-> clouds[k]]]

\* Lines 102-105.
FrameGeometries(ts) == [k \in DOMAIN ts |-> [kind |-> "frame", transform |-> ts[k]]]

\* --------------------------------------------------------------- Init

Init ==
    /\ pc = "start"
    /\ failedAt = "none"
    /\ depth_threshold \in Thresholds
    /\ modelBuilds = 0
    /\ evalMode = FALSE
    /\ no_grad = FALSE
    /\ openCalls = 0
    /\ inferCalls = 0
    /\ inferLog = <<>>
    /\ images = <<>>
    /\ depths = <<>>
    /\ min_depths = <<>>
    /\ depth_offsets = <<>>
    /\ base_transforms = <<>>
    /\ transforms = <<>>
    /\ pcds = <<>>
    /\ windowsCreated = 0
    /\ windowsDestroyed = 0
    /\ geometries = <<>>

\* ------------------------------------------------------------ actions

\* BuildModel without the call of model.eval().
BuildModelNoEval ==
    /\ pc = "start"
    /\ modelBuilds' = modelBuilds + 1
    /\ no_grad' = TRUE
    /\ pc' = "load"
    /\ UNCHANGED <<failedAt, depth_threshold, evalMode, openCalls, inferCalls, inferLog, images,
                   depths, min_depths, depth_offsets, base_transforms, transforms, pcds,
                   windowsCreated, windowsDestroyed, geometries>>

\* Lines 22-24 and 41: the model is built, put in eval mode, and the
\* no_grad block is entered.
BuildModel ==
    /\ pc = "start"
    /\ modelBuilds' = modelBuilds + 1
    /\ evalMode' = TRUE
    /\ no_grad' = TRUE
    /\ pc' = "load"
    /\ UNCHANGED <<failedAt, depth_threshold, openCalls, inferCalls, inferLog, images,
                   depths, min_depths, depth_offsets, base_transforms, transforms, pcds,
                   windowsCreated, windowsDestroyed, geometries>>

\* get_config or build_model raises.
BuildModelFails ==
    /\ pc = "start"
    /\ pc' = "aborted"
    /\ failedAt' = "build"
    /\ UNCHANGED <<depth_threshold, modelBuilds, evalMode, no_grad, openCalls, inferCalls,
                   inferLog, images, depths, min_depths, depth_offsets, base_transforms,
                   transforms, pcds, windowsCreated, windowsDestroyed, geometries>>

\* Where the loop of lines 45-50 goes after an iteration: on to the next
\* image, or out of the no_grad block.
AfterLoad(loaded) == IF loaded = NumCameras THEN "min_depths" ELSE "load"

\* Lines 46-50 for the next image.
LoadAndInfer ==
    /\ pc = "load"
    /\ \E img \in LoadableImages :
         \E depth \in InferredDepths(img, Len(images) + 1) :
            /\ images' = Append(images, img)
            /\ depths' = Append(depths, depth)
    /\ openCalls' = openCalls + 1
    /\ inferCalls' = inferCalls + 1
    /\ inferLog' = Append(inferLog, [build |-> modelBuilds, eval |-> evalMode, no_grad |-> no_grad])
    /\ pc' = AfterLoad(Len(images) + 1)
    /\ no_grad' = (pc' = "load")
    /\ UNCHANGED <<failedAt, depth_threshold, modelBuilds, evalMode, min_depths,
                   depth_offsets, base_transforms, transforms, pcds, windowsCreated,
                   windowsDestroyed, geometries>>

\* LoadFailure swallowing the error: the loop goes on and the step is tried again.
LoadFailureRetried(step) ==
    /\ pc' = "load"
    /\ failedAt' = step
    /\ UNCHANGED <<depth_threshold, modelBuilds, evalMode, no_grad, images, depths, min_depths,
                   depth_offsets, base_transforms, transforms, pcds, windowsCreated,
                   windowsDestroyed, geometries>>

\* What a raise inside the loop of lines 45-50 leaves behind.
LoadFailure(step) ==
    /\ pc' = "aborted"
    /\ failedAt' = step
    /\ no_grad' = FALSE
    /\ UNCHANGED <<depth_threshold, modelBuilds, evalMode, images, depths, min_depths,
                   depth_offsets, base_transforms, transforms, pcds, windowsCreated,
                   windowsDestroyed, geometries>>

\* Line 46: Image.open or convert raises.
OpenFails ==
    /\ pc = "load"
    /\ openCalls' = openCalls + 1
    /\ UNCHANGED <<inferCalls, inferLog>>
    /\ LoadFailure("open")

\* Line 48: infer_pil raises.
InferFails ==
    /\ pc = "load"
    /\ openCalls' = openCalls + 1
    /\ inferCalls' = inferCalls + 1
    /\ inferLog' = Append(inferLog, [build |-> modelBuilds, eval |-> evalMode, no_grad |-> no_grad])
    /\ LoadFailure("infer")

\* Lines 53-58, when every depth map has a pixel.
ComputeMinDepths ==
    /\ pc = "min_depths"
    /\ \A c \in Cameras : depths[c] # <<>>
    /\ min_depths' = [c \in Cameras |-> NearSurface(depths[c])]
    /\ pc' = "offsets"
    /\ UNCHANGED <<failedAt, depth_threshold, modelBuilds, evalMode, no_grad, openCalls,
                   inferCalls, inferLog, images, depths, depth_offsets, base_transforms,
                   transforms, pcds, windowsCreated, windowsDestroyed, geometries>>

\* Line 57: np.percentile raises on the z column of an empty depth map.
\* (NumPy releases that return NaN here get no further than line 89,
\* where the empty mask does not fit the image's pixels.)
PercentileFails ==
    /\ pc = "min_depths"
    /\ \E c \in Cameras : depths[c] = <<>>
    /\ pc' = "aborted"
    /\ failedAt' = "percentile"
    /\ UNCHANGED <<depth_threshold, modelBuilds, evalMode, no_grad, openCalls, inferCalls,
                   inferLog, images, depths, min_depths, depth_offsets, base_transforms,
                   transforms, pcds, windowsCreated, windowsDestroyed, geometries>>

\* Lines 61-70.
ComputeTransforms ==
    /\ pc = "offsets"
    /\ depth_offsets' = ComputeOffsets(min_depths)
    /\ base_transforms' = BaseTransformList
    /\ transforms' = BuildTransforms(BaseTransformList, depth_offsets')
    /\ pc' = "clouds"
    /\ UNCHANGED <<failedAt, depth_threshold, modelBuilds, evalMode, no_grad, openCalls,
                   inferCalls, inferLog, images, depths, min_depths, pcds, windowsCreated,
                   windowsDestroyed, geometries>>

\* The clouds of cameras 1..upto.
CloudsUpTo(upto) ==
    [c \in 1..upto |-> BuildCloud(depths[c], images[c], transforms[c], depth_threshold)]

\* Lines 72-91, all four cameras.
BuildClouds ==
    /\ pc = "clouds"
    /\ FirstMisfit = 0
    /\ pcds' = CloudsUpTo(NumCameras)
    /\ pc' = "window"
    /\ UNCHANGED <<failedAt, depth_threshold, modelBuilds, evalMode, no_grad, openCalls,
                   inferCalls, inferLog, images, depths, min_depths, depth_offsets,
                   base_transforms, transforms, windowsCreated, windowsDestroyed,
                   geometries>>

\* Line 89 raises (the boolean mask and the pixel array differ in length)
\* at the first camera whose depth map is not as large as its image.
CloudFails ==
    /\ pc = "clouds"
    /\ FirstMisfit # 0
    /\ pcds' = CloudsUpTo(FirstMisfit - 1)
    /\ pc' = "aborted"
    /\ failedAt' = "cloud"
    /\ UNCHANGED <<depth_threshold, modelBuilds, evalMode, no_grad, openCalls, inferCalls,
                   inferLog, images, depths, min_depths, depth_offsets, base_transforms,
                   transforms, windowsCreated, windowsDestroyed, geometries>>

\* Lines 94-95.
CreateWindow ==
    /\ pc = "window"
    /\ windowsCreated' = windowsCreated + 1
    /\ pc' = "geometries"
    /\ UNCHANGED <<failedAt, depth_threshold, modelBuilds, evalMode, no_grad, openCalls,
                   inferCalls, inferLog, images, depths, min_depths, depth_offsets,
                   base_transforms, transforms, pcds, windowsDestroyed, geometries>>

\* Lines 98-109.
AddGeometries ==
    /\ pc = "geometries"
    /\ geometries' = CloudGeometries(pcds) \o FrameGeometries(transforms)
    /\ pc' = "run"
    /\ UNCHANGED <<failedAt, depth_threshold, modelBuilds, evalMode, no_grad, openCalls,
                   inferCalls, inferLog, images, depths, min_depths, depth_offsets,
                   base_transforms, transforms, pcds, windowsCreated, windowsDestroyed>>

\* Line 111 returns: the user closed the viewer.
RunViewer ==
    /\ pc = "run"
    /\ pc' = "destroy"
    /\ UNCHANGED <<failedAt, depth_threshold, modelBuilds, evalMode, no_grad, openCalls,
                   inferCalls, inferLog, images, depths, min_depths, depth_offsets,
                   base_transforms, transforms, pcds, windowsCreated, windowsDestroyed,
                   geometries>>

\* A raise between lines 98 and 111 (add_geometry, the render options,
\* or an interrupt of vis.run()): nothing catches it.
ViewerFails ==
    /\ pc \in {"geometries", "run"}
    /\ pc' = "aborted"
    /\ failedAt' = "viewer"
    /\ UNCHANGED <<depth_threshold, modelBuilds, evalMode, no_grad, openCalls, inferCalls,
                   inferLog, images, depths, min_depths, depth_offsets, base_transforms,
                   transforms, pcds, windowsCreated, windowsDestroyed, geometries>>

\* Line 112.
DestroyWindow ==
    /\ pc = "destroy"
    /\ windowsDestroyed' = windowsDestroyed + 1
    /\ pc' = "done"
    /\ UNCHANGED <<failedAt, depth_threshold, modelBuilds, evalMode, no_grad, openCalls,
                   inferCalls, inferLog, images, depths, min_depths, depth_offsets,
                   base_transforms, transforms, pcds, windowsCreated, geometries>>

Next ==
    \/ BuildModel
    \/ BuildModelFails
    \/ LoadAndInfer
    \/ OpenFails
    \/ InferFails
    \/ ComputeMinDepths
    \/ PercentileFails
    \/ ComputeTransforms
    \/ BuildClouds
    \/ CloudFails
    \/ CreateWindow
    \/ AddGeometries
    \/ RunViewer
    \/ ViewerFails
    \/ DestroyWindow

Spec == Init /\ [][Next]_vars

\* ------------------------------------------------------------- claims

\* The pixels of camera c that the filter keeps, and the j-th of them.
Survivors(c) == {k \in DOMAIN depths[c] : depth_to_points(depths[c])[k][3] < depth_threshold}

KthOf(S, j) == CHOOSE k \in S : Cardinality({m \in S : m <= k}) = j

AllBeyond(c) == depths[c] # <<>> /\ \A k \in DOMAIN depths[c] : depths[c][k] >= depth_threshold

CloudsBuilt == Len(pcds) = NumCameras

\* Every camera's depth map is the flat plane of the synthetic scenario.
PlaneScenario ==
    /\ Len(depths) = NumCameras
    /\ \A c \in Cameras :
         /\ Len(depths[c]) = Len(images[c])
         /\ \A k \in DOMAIN depths[c] : depths[c][k] = PlaneDepths[c]

\* C1: with the four planes at depths 1.0, 1.4, 1.78 and 2.13 the offsets
\* are [0, 0.4, 0.78, 1.13] and every point of every cloud has world z 1.0.
C1_AlignmentCancelsDrift ==
    (PlaneScenario /\ CloudsBuilt) =>
        /\ depth_offsets = <<0, 4000, 7800, 11300>>
        /\ \A c \in Cameras : \A j \in DOMAIN pcds[c].points :
             pcds[c].points[j][3] = PlaneDepths[1]

\* C2: the effective transform's z translation is the base transform's z
\* translation plus the camera's offset, every other entry is the base
\* transform's, and the base transforms are the rig's, unmodified.
C2_OffsetOnlyInZTranslation ==
    Len(transforms) = NumCameras =>
        /\ base_transforms = <<T_cam1_world, T_cam2_world, T_cam3_world, T_cam4_world>>
        /\ \A c \in Cameras :
             /\ transforms[c][3][4] = base_transforms[c][3][4] + depth_offsets[c]
             /\ \A r \in 1..4 : \A col \in 1..4 :
                  (r # 3 \/ col # 4) => transforms[c][r][col] = base_transforms[c][r][col]

C2_Witness ==
    /\ Len(transforms) = NumCameras
    /\ \E c \in Cameras : depth_offsets[c] > 0
    /\ \E c \in Cameras : depth_offsets[c] < 0

\* C3: offset[0] is 0 whatever the near-surface depths are, and the
\* reference camera's effective transform is its base transform.
C3_ReferenceOffsetZero ==
    Len(depth_offsets) = NumCameras =>
        /\ depth_offsets[1] = 0
        /\ transforms[1] = T_cam1_world

C3_Witness ==
    /\ Len(depth_offsets) = NumCameras
    /\ min_depths[1] # 0
    /\ min_depths[2] # min_depths[1]
    /\ depth_offsets[2] # 0

\* C4: a camera's cloud holds exactly the points whose camera-local z is
\* strictly below the threshold, in pixel order, each moved by the
\* camera's effective transform; the world z plays no part in the test.
C4_KeptIffLocalZBelowThreshold ==
    \A c \in DOMAIN pcds :
        LET pts == depth_to_points(depths[c])
        IN  /\ Len(pcds[c].points) = Cardinality(Survivors(c))
            /\ \A j \in DOMAIN pcds[c].points :
                 pcds[c].points[j] = TransformPoint(transforms[c], pts[KthOf(Survivors(c), j)])

\* A point exactly at the threshold was discarded, and a kept point lies
\* at or beyond the threshold in world coordinates.
C4_Witness ==
    /\ CloudsBuilt
    /\ \E c \in Cameras : \E k \in DOMAIN depths[c] : depths[c][k] = depth_threshold
    /\ \E c \in Cameras : \E j \in DOMAIN pcds[c].points : pcds[c].points[j][3] >= depth_threshold

RECURSIVE SumLen(_)
SumLen(clouds) ==
    IF clouds = <<>> THEN 0 ELSE Len(Head(clouds).cloud.points) + SumLen(Tail(clouds))

RECURSIVE SurvivorTotal(_)
SurvivorTotal(c) == IF c = 0 THEN 0 ELSE Cardinality(Survivors(c)) + SurvivorTotal(c - 1)

RenderedClouds == SelectSeq(geometries, LAMBDA g : g.kind = "cloud")

\* C5: the viewer is handed exactly four clouds, the c-th holding camera
\* c's surviving points, so that the total is the sum of the survivors.
C5_MergedSizeIsSumOfSurvivors ==
    geometries # <<>> =>
        /\ Len(RenderedClouds) = NumCameras
        /\ \A c \in Cameras :
             /\ geometries[c].kind = "cloud"
             /\ Len(geometries[c].cloud.points) = Cardinality(Survivors(c))
        /\ SumLen(RenderedClouds) = SurvivorTotal(NumCameras)

C5_Witness ==
    /\ geometries # <<>>
    /\ \E c \in Cameras : Cardinality(Survivors(c)) = 0
    /\ \E c \in Cameras : 0 < Cardinality(Survivors(c)) /\ Cardinality(Survivors(c)) < Len(depths[c])
    /\ SumLen(RenderedClouds) > 2

AlignmentAborted == pc = "aborted" /\ failedAt \in {"percentile", "cloud"}

\* C6 as stated: with every depth map either as large as its image or
\* empty, the run does not abort between loading and rendering.
C6_DegenerateNeverAborts ==
    (Len(depths) = NumCameras /\ \A c \in Cameras : Len(depths[c]) \in {0, Len(images[c])})
        => ~AlignmentAborted

\* C6 amended: a camera all of whose points are at or beyond the threshold
\* gets an empty cloud while the other clouds hold their survivors, and the
\* run aborts between loading and rendering only when some depth map is
\* not as large as its image; an empty depth map aborts it before any
\* cloud is built.
C6_AllBeyondContributesNothing ==
    /\ AlignmentAborted => \E c \in Cameras : Len(depths[c]) # Len(images[c])
    /\ (Len(depths) = NumCameras /\ pc \notin {"load", "min_depths"}
          /\ \E c \in Cameras : depths[c] = <<>>)
         => (pc = "aborted" /\ failedAt = "percentile" /\ pcds = <<>>)
    /\ CloudsBuilt =>
         \A c \in Cameras :
            /\ AllBeyond(c) => (pcds[c].points = <<>> /\ pcds[c].colors = <<>>)
            /\ Len(pcds[c].points) = Cardinality(Survivors(c))

\* Rendering was reached with one camera contributing nothing and another
\* contributing points.
C6_Witness ==
    /\ pc = "run"
    /\ geometries # <<>>
    /\ \E c \in Cameras : AllBeyond(c)
    /\ \E c \in Cameras : pcds[c].points # <<>>

\* C7: a failure of open or infer aborts the run at that step: no retry,
\* no later image, no offset, no cloud, no window, and nothing runs after.
C7_LoadFailureAborts ==
    failedAt \in {"open", "infer"} =>
        /\ pc = "aborted"
        /\ openCalls = Len(images) + 1
        /\ inferCalls = Len(images) + (IF failedAt = "infer" THEN 1 ELSE 0)
        /\ Len(images) < NumCameras
        /\ min_depths = <<>>
        /\ depth_offsets = <<>>
        /\ pcds = <<>>
        /\ windowsCreated = 0
        /\ ~ENABLED Next

C7_Witness ==
    /\ pc = "aborted"
    /\ failedAt = "infer"
    /\ Len(images) = 2

\* C8: the model is built once, before the first inference, and each of
\* the four inferences runs on it in eval mode with gradients disabled.
C8_ModelBuiltOnceEvalNoGrad ==
    /\ modelBuilds <= 1
    /\ Len(inferLog) <= NumCameras
    /\ Len(inferLog) = inferCalls
    /\ \A k \in DOMAIN inferLog :
         inferLog[k].build = 1 /\ inferLog[k].eval /\ inferLog[k].no_grad
    /\ pc = "done" => Len(inferLog) = NumCameras

C8_Witness == pc = "done" /\ Len(inferLog) = NumCameras /\ modelBuilds = 1

\* C9: the window is opened at most once and, when it was opened, it has
\* been destroyed by the time the run has ended, whichever way it ended.
C9_WindowAlwaysDestroyed ==
    /\ windowsCreated <= 1
    /\ pc \in {"done", "aborted"} => windowsDestroyed = windowsCreated

\* C10: a cloud has as many colours as points, and its j-th point and
\* j-th colour both come from the j-th surviving pixel, the colour being
\* that pixel's channels over 255, each in [0, 1].
C10_ColoursFollowPoints ==
    \A c \in DOMAIN pcds :
        /\ Len(depths[c]) = Len(images[c])
        /\ Len(pcds[c].colors) = Len(pcds[c].points)
        /\ \A j \in DOMAIN pcds[c].points :
             LET k == KthOf(Survivors(c), j)
             IN  /\ pcds[c].points[j][3] = depths[c][k] + depth_offsets[c]
                 /\ \A ch \in 1..3 :
                      /\ pcds[c].colors[j][ch] = <<images[c][k][ch], 255>>
                      /\ 0 <= pcds[c].colors[j][ch][1]
                      /\ pcds[c].colors[j][ch][1] <= pcds[c].colors[j][ch][2]

\* A cloud whose only point comes from the second pixel of its image.
C10_Witness ==
    /\ CloudsBuilt
    /\ \E c \in Cameras :
         /\ Len(images[c]) = 2
         /\ Survivors(c) = {2}
         /\ pcds[c].colors[1] = NormaliseColour(images[c][2])
         /\ images[c][2] # images[c][1]

====
